---- MODULE Spec2Model ----
(***************************************************************************)
(* Model of the dashboard scaffold: the mock login / registration pages,   *)
(* the Dashboard page, the session helpers of util/index.ts and the fetch  *)
(* wrapper of util/request.ts (request, uploadFile, batchRequest,          *)
(* sequentialRequest, retryRequest).                                       *)
(*                                                                         *)
(* Strings are sequences of chunks (a chunk is a TLA+ string), so that the *)
(* empty string is <<>>, truthiness is Len > 0, and "@" is a chunk of its  *)
(* own in every e-mail; passwords are sequences of single characters.      *)
(***************************************************************************)
EXTENDS Integers, Sequences, FiniteSets, TLC

VARIABLES
    localStorage,   \* function: present key -> stored string
    location,       \* current route (router path / window.location.href)
    login,          \* Login page: handleSubmit position and React state
    register,       \* Register page: handleSubmit position and React state
    dash,           \* Dashboard page: mounted flag and `user` state
    req,            \* one call of request(): position, timer, response, outcome
    retry,          \* one call of retryRequest(): loop position and bookkeeping
    seq,            \* one call of sequentialRequest(): loop position and results
    batch,          \* one call of batchRequest(): its requests and outcome
    upl             \* one call of uploadFile(): position, timer, request sent, outcome

vars == <<localStorage, location, login, register, dash, req, retry, seq, batch, upl>>

\* the asynchronous helpers of util/request.ts
asyncVars == <<req, retry, seq, batch, upl>>

----------------------------------------------------------------------------
(* config: STORAGE_KEYS and ROUTES *)

TOKEN == "company_token"
USER == "company_user"
REFRESH_TOKEN == "company_refresh_token"
THEME == "app_theme"
LANGUAGE == "app_language"

STORAGE_KEYS == {TOKEN, USER, REFRESH_TOKEN, THEME, LANGUAGE}

Routes == {"/", "/login", "/register", "/dashboard"}

----------------------------------------------------------------------------
(* Input alphabets *)

DemoEmail == <<"user", "@", "company.com">>
DemoPassword == <<"p", "a", "s", "s", "w", "o", "r", "d">>

Emails == {DemoEmail, <<"ann", "@", "x.org">>, <<"ann.x.org">>}
Passwords == {DemoPassword, <<"a", "b", "c", "d">>, <<"a", "b", "c">>}
Names == {"Ann"}

LoginToken == <<"demo-token-123">>
RegisterToken == <<"demo-token-456">>
Tokens == {LoginToken, <<>>}
RefreshTokens == {<<>>, <<"refresh-1">>}

----------------------------------------------------------------------------
(* Browser primitives *)

\* localStorage.getItem(key) is null exactly when the key is absent
HasItem(ls, key) == key \in DOMAIN ls

\* truthiness of localStorage.getItem(key): neither null nor ""
Truthy(ls, key) == key \in DOMAIN ls /\ Len(ls[key]) > 0

setItem(ls, key, value) ==
    [k \in (DOMAIN ls) \cup {key} |-> IF k = key THEN value ELSE ls[k]]

removeItem(ls, key) == [k \in (DOMAIN ls) \ {key} |-> ls[k]]

\* JSON.stringify({ name, email })
Stringify(name, email) == <<"{", "name", name, "email">> \o email \o <<"}">>

\* JSON.parse of such a text
JSONParse(text) == [name |-> text[3], email |-> SubSeq(text, 5, Len(text) - 1)]

\* String.prototype.includes for a one-character needle
Includes(str, ch) == \E i \in 1..Len(str) : str[i] = ch

----------------------------------------------------------------------------
(* pages/auth/Login.tsx *)

\* a mock that checks the e-mail only
loginApiAnyPassword(email, password) ==
    IF email = DemoEmail
    THEN [ok |-> TRUE, token |-> LoginToken, name |-> "Demo User", error |-> ""]
    ELSE [ok |-> FALSE, token |-> <<>>, name |-> "", error |-> "Invalid email or password"]

loginApi(email, password) ==
    IF email = DemoEmail /\ password = DemoPassword
    THEN [ok |-> TRUE, token |-> LoginToken, name |-> "Demo User", error |-> ""]
    ELSE [ok |-> FALSE, token |-> <<>>, name |-> "", error |-> "Invalid email or password"]

\* how many successful logins a behaviour holds
MaxSessions == 2

\* handleSubmit up to the await: the form fields are captured by the closure;
\* `sessions` counts the successful logins so far
LoginSubmit(email, password) ==
    /\ location \in {"/", "/login"}
    /\ ~login.loading
    /\ login.sessions < MaxSessions
    /\ login' = [pc |-> "pending", email |-> email, password |-> password,
                 error |-> "", loading |-> TRUE, sessions |-> login.sessions]
    /\ UNCHANGED <<localStorage, location, register, dash, asyncVars>>

\* handleSubmit after the await
LoginComplete ==
    /\ login.pc = "pending"
    /\ LET res == loginApi(login.email, login.password) IN
       IF res.ok
       THEN /\ localStorage' =
                 setItem(setItem(localStorage, TOKEN, res.token),
                         USER, Stringify(res.name, login.email))
            /\ location' = "/dashboard"
            /\ login' = [login EXCEPT !.pc = "idle", !.loading = FALSE,
                                      !.sessions = login.sessions + 1]
       ELSE /\ login' = [login EXCEPT !.pc = "idle", !.loading = FALSE,
                                      !.error = IF res.error # "" THEN res.error
                                                ELSE "Login failed"]
            /\ UNCHANGED <<localStorage, location>>
    /\ dash' = IF location' = "/dashboard" THEN dash
               ELSE [mounted |-> FALSE, user |-> {}]
    /\ UNCHANGED <<register, asyncVars>>

----------------------------------------------------------------------------
(* pages/auth/Register.tsx *)

registerApi(name, email, password) ==
    IF Includes(email, "@") /\ Len(password) >= 4
    THEN [ok |-> TRUE, token |-> RegisterToken, name |-> name, error |-> ""]
    ELSE [ok |-> FALSE, token |-> <<>>, name |-> "", error |-> "Invalid registration details"]

RegisterSubmit(name, email, password) ==
    /\ location = "/register"
    /\ ~register.loading
    /\ register' = [pc |-> "pending", name |-> name, email |-> email,
                    password |-> password, error |-> "", loading |-> TRUE]
    /\ UNCHANGED <<localStorage, location, login, dash, asyncVars>>

RegisterComplete ==
    /\ register.pc = "pending"
    /\ LET res == registerApi(register.name, register.email, register.password) IN
       IF res.ok
       THEN /\ localStorage' =
                 setItem(IF Len(res.token) > 0
                         THEN setItem(localStorage, TOKEN, res.token)
                         ELSE localStorage,
                         USER, Stringify(register.name, register.email))
            /\ location' = "/dashboard"
            /\ register' = [register EXCEPT !.pc = "idle", !.loading = FALSE]
       ELSE /\ register' = [register EXCEPT !.pc = "idle", !.loading = FALSE,
                                            !.error = IF res.error # "" THEN res.error
                                                      ELSE "Registration failed"]
            /\ UNCHANGED <<localStorage, location>>
    /\ dash' = IF location' = "/dashboard" THEN dash
               ELSE [mounted |-> FALSE, user |-> {}]
    /\ UNCHANGED <<login, asyncVars>>

----------------------------------------------------------------------------
(* util/index.ts: authentication utilities *)

\* a test for the presence of the key instead of the truthiness of its value
isAuthenticatedKeyPresent(ls) == HasItem(ls, TOKEN)

isAuthenticated(ls) == Truthy(ls, TOKEN)

saveAuthData(ls, token, user, refreshToken) ==
    LET withUser == setItem(setItem(ls, TOKEN, token), USER, user) IN
    IF Len(refreshToken) > 0 THEN setItem(withUser, REFRESH_TOKEN, refreshToken)
    ELSE withUser

clearAuth(ls) == removeItem(removeItem(removeItem(ls, TOKEN), USER), REFRESH_TOKEN)

SaveAuthData(token, name, email, refreshToken) ==
    /\ localStorage' = saveAuthData(localStorage, token, Stringify(name, email), refreshToken)
    /\ UNCHANGED <<location, login, register, dash, asyncVars>>

ClearAuth ==
    /\ localStorage' = clearAuth(localStorage)
    /\ UNCHANGED <<location, login, register, dash, asyncVars>>

----------------------------------------------------------------------------
(* pages/Dashboard.tsx and the routes of App *)

\* the user opens a route (address bar or the Register / Sign in links)
GoTo(path) ==
    /\ path # location
    /\ location' = path
    /\ dash' = [mounted |-> FALSE, user |-> {}]
    /\ UNCHANGED <<localStorage, login, register, asyncVars>>

\* the useEffect that runs when Dashboard mounts
DashboardRedirects(ls) == ~Truthy(ls, TOKEN)

DashboardMount ==
    /\ location = "/dashboard"
    /\ ~dash.mounted
    /\ IF DashboardRedirects(localStorage)
       THEN /\ location' = "/login"
            /\ dash' = [mounted |-> FALSE, user |-> {}]
       ELSE /\ location' = location
            /\ dash' = [mounted |-> TRUE,
                        user |-> IF Truthy(localStorage, USER)
                                 THEN {JSONParse(localStorage[USER])}
                                 ELSE {}]
    /\ UNCHANGED <<localStorage, login, register, asyncVars>>

\* a logout that forgets the user record
handleLogoutKeepsUser ==
    /\ dash.mounted
    /\ localStorage' = removeItem(localStorage, TOKEN)
    /\ location' = "/login"
    /\ dash' = [mounted |-> FALSE, user |-> {}]
    /\ UNCHANGED <<login, register, asyncVars>>

handleLogout ==
    /\ dash.mounted
    /\ localStorage' = removeItem(removeItem(localStorage, TOKEN), USER)
    /\ location' = "/login"
    /\ dash' = [mounted |-> FALSE, user |-> {}]
    /\ UNCHANGED <<login, register, asyncVars>>

----------------------------------------------------------------------------

(* util/config.ts: HTTP_STATUS and ERROR_MESSAGES *)

UNAUTHORIZED == 401
FORBIDDEN == 403
NOT_FOUND == 404
UNPROCESSABLE_ENTITY == 422

MSG_NETWORK_ERROR == "Network error. Please check your connection."
MSG_UNAUTHORIZED == "You are not authorized. Please login again."
MSG_FORBIDDEN == "You don't have permission to access this resource."
MSG_NOT_FOUND == "The requested resource was not found."
MSG_VALIDATION_ERROR == "Please check your input and try again."
MSG_SERVER_ERROR == "Something went wrong on our end. Please try again later."
MSG_TIMEOUT == "Request timeout. Please try again."
MSG_UNKNOWN == "An unknown error occurred."

----------------------------------------------------------------------------
(* What the network can answer *)

\* response statuses that fetch can deliver to the wrapper
Statuses == {200, 201, 204, 299, 300, 400, 401, 403, 404, 409, 422, 429, 499,
             500, 503, 599}

\* Content-Type header, as chunks; <<>> is a response without the header
ContentTypes == {<<"application/json">>, <<"text/", "html">>, <<"application/pdf">>,
                 <<"application/octet-stream">>, <<>>}

\* body text: whether it is valid JSON, the JSON value it denotes, and the
\* `message` property of that value ("" when the property is missing)
Bodies == {[valid |-> TRUE, kind |-> "object", message |-> "server says no"],
           [valid |-> TRUE, kind |-> "object", message |-> ""],
           [valid |-> TRUE, kind |-> "null", message |-> ""],
           [valid |-> FALSE, kind |-> "text", message |-> ""]}

Responses == [status : Statuses, contentType : ContentTypes, body : Bodies]

NoResponse == [status |-> 0, contentType |-> <<>>,
               body |-> [valid |-> FALSE, kind |-> "none", message |-> ""]]

\* messages of the TypeError that fetch rejects with when the network fails
NetworkFailures == {"Failed to fetch", "NetworkError when attempting to fetch resource.", ""}

----------------------------------------------------------------------------
(* util/request.ts: errors *)

\* a thrown value; status -1 stands for "no status property"
Thrown(name, status, message) ==
    [kind |-> "throw", name |-> name, status |-> status, message |-> message]

ApiError(message, status) == Thrown("ApiError", status, message)

\* the value a try block returns: success is true, status the response's
Returned(status, message) ==
    [kind |-> "return", name |-> "", status |-> status, message |-> message]

NoResult == [kind |-> "none", name |-> "", status |-> -1, message |-> ""]

instanceofApiError(error) == error.kind = "throw" /\ error.name = "ApiError"

----------------------------------------------------------------------------
(* util/request.ts: request() and what it calls *)

\* a clearAuthData that removes the token only
clearAuthDataTokenOnly(ls) == removeItem(ls, TOKEN)

clearAuthData(ls) == removeItem(removeItem(removeItem(ls, TOKEN), USER), REFRESH_TOKEN)

\* Response.ok
ResponseOk(status) == 200 <= status /\ status <= 299

\* parseResponse: the parsed data, or the exception the body reader throws.
\* Without a recognised content type json() is tried first; when it fails the
\* body is already consumed, so the fallback text() throws a TypeError.
parseResponse(response) ==
    LET ct == response.contentType
        body == response.body
        json == IF body.valid
                THEN [thrown |-> "", errMessage |-> "", kind |-> body.kind,
                      message |-> body.message]
                ELSE [thrown |-> "SyntaxError", errMessage |-> "Unexpected token",
                      kind |-> "none", message |-> ""]
    IN  IF Len(ct) > 0 /\ Includes(ct, "application/json") THEN json
        ELSE IF Len(ct) > 0 /\ Includes(ct, "text/")
        THEN [thrown |-> "", errMessage |-> "", kind |-> "string", message |-> ""]
        ELSE IF Len(ct) > 0 /\ Includes(ct, "application/pdf")
        THEN [thrown |-> "", errMessage |-> "", kind |-> "blob", message |-> ""]
        ELSE IF body.valid THEN json
        ELSE [thrown |-> "TypeError", errMessage |-> "body stream already read",
              kind |-> "none", message |-> ""]

\* reading a property of null throws
NullAccess == Thrown("TypeError", -1, "Cannot read properties of null")

\* the status dispatch with the server-error test written `> 500`
StatusDispatchAbove500(status, data) ==
    IF status = UNAUTHORIZED THEN ApiError(MSG_UNAUTHORIZED, UNAUTHORIZED)
    ELSE IF status = FORBIDDEN THEN ApiError(MSG_FORBIDDEN, FORBIDDEN)
    ELSE IF status = NOT_FOUND THEN ApiError(MSG_NOT_FOUND, NOT_FOUND)
    ELSE IF status = UNPROCESSABLE_ENTITY
    THEN IF data.kind = "null" THEN NullAccess
         ELSE ApiError(IF data.message # "" THEN data.message
                       ELSE MSG_VALIDATION_ERROR, UNPROCESSABLE_ENTITY)
    ELSE IF status > 500 THEN ApiError(MSG_SERVER_ERROR, status)
    ELSE IF ~ResponseOk(status)
    THEN IF data.kind = "null" THEN NullAccess
         ELSE ApiError(IF data.message # "" THEN data.message
                       ELSE "HTTP " \o ToString(status), status)
    ELSE IF data.kind = "null" THEN NullAccess
         ELSE Returned(status, data.message)

\* the status dispatch of the try block, lines 197-243
StatusDispatch(status, data) ==
    IF status = UNAUTHORIZED THEN ApiError(MSG_UNAUTHORIZED, UNAUTHORIZED)
    ELSE IF status = FORBIDDEN THEN ApiError(MSG_FORBIDDEN, FORBIDDEN)
    ELSE IF status = NOT_FOUND THEN ApiError(MSG_NOT_FOUND, NOT_FOUND)
    ELSE IF status = UNPROCESSABLE_ENTITY
    THEN IF data.kind = "null" THEN NullAccess
         ELSE ApiError(IF data.message # "" THEN data.message
                       ELSE MSG_VALIDATION_ERROR, UNPROCESSABLE_ENTITY)
    ELSE IF status >= 500 THEN ApiError(MSG_SERVER_ERROR, status)
    ELSE IF ~ResponseOk(status)
    THEN IF data.kind = "null" THEN NullAccess
         ELSE ApiError(IF data.message # "" THEN data.message
                       ELSE "HTTP " \o ToString(status), status)
    ELSE IF data.kind = "null" THEN NullAccess
         ELSE Returned(status, data.message)

\* the try block once fetchWithTimeout has returned the response
TryBody(response) ==
    LET data == parseResponse(response) IN
    IF data.thrown # "" THEN Thrown(data.thrown, -1, data.errMessage)
    ELSE StatusDispatch(response.status, data)

\* redirectToLogin() is called: the body was parsed and the status is 401
CallsRedirectToLogin(response) ==
    parseResponse(response).thrown = "" /\ response.status = UNAUTHORIZED

\* a catch block that rethrows whatever it caught
CatchRethrows(error) == error

\* the catch block, lines 244-261
Catch(error) ==
    IF instanceofApiError(error) THEN error
    ELSE IF error.message = "Failed to fetch" THEN ApiError(MSG_NETWORK_ERROR, 0)
    ELSE ApiError(IF error.message # "" THEN error.message ELSE MSG_UNKNOWN, 0)

Settle(outcome) == IF outcome.kind = "throw" THEN Catch(outcome) ELSE outcome

IdleRequest ==
    [pc |-> "idle", requiresAuth |-> FALSE, authorization |-> <<>>, fetchCalls |-> 0,
     timer |-> "none", aborted |-> FALSE, response |-> NoResponse, result |-> NoResult,
     session |-> 0]

\* a buildHeaders without the else branch that throws
buildHeadersNeverThrows(requiresAuth, ls) == FALSE

\* buildHeaders throws: authentication is required and getAuthToken() is falsy
buildHeadersThrows(requiresAuth, ls) == requiresAuth /\ ~Truthy(ls, TOKEN)

\* the Authorization header: `Bearer ${token}`
Bearer(ls) == <<"Bearer ">> \o (IF HasItem(ls, TOKEN) THEN ls[TOKEN] ELSE <<>>)

\* request() up to the first await: buildHeaders, then fetchWithTimeout arms
\* the timer and calls fetch; `session` notes how many logins had succeeded
RequestCall(requiresAuth) ==
    /\ req.pc \in {"idle", "resolved", "rejected"}
    /\ IF buildHeadersThrows(requiresAuth, localStorage)
       THEN req' = [IdleRequest EXCEPT !.pc = "rejected", !.requiresAuth = requiresAuth,
                       !.session = login.sessions,
                       !.result = ApiError(MSG_UNAUTHORIZED, UNAUTHORIZED)]
       ELSE req' = [IdleRequest EXCEPT !.pc = "fetching", !.requiresAuth = requiresAuth,
                       !.authorization = IF requiresAuth THEN Bearer(localStorage)
                                         ELSE <<>>,
                       !.fetchCalls = 1, !.timer = "armed", !.session = login.sessions]
    /\ UNCHANGED <<localStorage, location, login, register, dash, retry, seq, batch, upl>>

\* fetch resolves with a response: the timer is cleared
FetchResolves(response) ==
    /\ req.pc = "fetching" /\ ~req.aborted
    /\ req' = [req EXCEPT !.pc = "parsing", !.timer = "cleared", !.response = response]
    /\ UNCHANGED <<localStorage, location, login, register, dash, retry, seq, batch, upl>>

\* fetch rejects with a TypeError: the timer is cleared, the error is rethrown
FetchFails(message) ==
    /\ req.pc = "fetching" /\ ~req.aborted
    /\ req' = [req EXCEPT !.pc = "rejected", !.timer = "cleared",
                          !.result = Catch(Thrown("TypeError", -1, message))]
    /\ UNCHANGED <<localStorage, location, login, register, dash, retry, seq, batch, upl>>

\* the timeout callback runs: controller.abort()
TimerFires ==
    /\ req.pc = "fetching" /\ req.timer = "armed"
    /\ req' = [req EXCEPT !.timer = "fired", !.aborted = TRUE]
    /\ UNCHANGED <<localStorage, location, login, register, dash, retry, seq, batch, upl>>

\* the aborted fetch rejects with an AbortError, which becomes ApiError 408
FetchAborted ==
    /\ req.pc = "fetching" /\ req.aborted
    /\ req' = [req EXCEPT !.pc = "rejected",
                          !.result = Catch(ApiError(MSG_TIMEOUT, 408))]
    /\ UNCHANGED <<localStorage, location, login, register, dash, retry, seq, batch, upl>>

\* the body has been read: the rest of the try block and the catch block
ResponseParsed ==
    /\ req.pc = "parsing"
    /\ LET result == Settle(TryBody(req.response)) IN
       req' = [req EXCEPT !.pc = IF result.kind = "return" THEN "resolved" ELSE "rejected",
                          !.result = result]
    /\ IF CallsRedirectToLogin(req.response)
       THEN /\ localStorage' = clearAuthData(localStorage)
            /\ location' = "/login"
            /\ dash' = [mounted |-> FALSE, user |-> {}]
       ELSE UNCHANGED <<localStorage, location, dash>>
    /\ UNCHANGED <<login, register, retry, seq, batch, upl>>

----------------------------------------------------------------------------
(* util/request.ts: sequentialRequest() *)

MaxRequests == 3

\* what a request function's promise can settle with; `from` is the position
\* of the function in the array, so that results can be told apart
SeqValues == {200, 201, 204}
SeqErrors == {ApiError(MSG_SERVER_ERROR, 500), ApiError(MSG_NOT_FOUND, NOT_FOUND),
              Thrown("Error", -1, "boom")}

IdleSeq == [pc |-> "idle", n |-> 0, idx |-> 0, started |-> <<>>, results |-> <<>>,
            error |-> {}]

\* sequentialRequest(requests) with n functions, up to the first await
SeqCall(n) ==
    /\ seq.pc \in {"idle", "resolved", "rejected"}
    /\ seq' = IF n = 0
              THEN [IdleSeq EXCEPT !.pc = "resolved"]
              ELSE [IdleSeq EXCEPT !.pc = "awaiting", !.n = n, !.idx = 1,
                                   !.started = <<1>>]
    /\ UNCHANGED <<localStorage, location, login, register, dash, req, retry, batch, upl>>

\* the awaited request resolves: push the result, start the next or return
SeqRequestResolves(value) ==
    /\ seq.pc = "awaiting"
    /\ LET results == Append(seq.results, [from |-> seq.idx, status |-> value]) IN
       seq' = IF seq.idx < seq.n
              THEN [seq EXCEPT !.results = results, !.idx = seq.idx + 1,
                               !.started = Append(seq.started, seq.idx + 1)]
              ELSE [seq EXCEPT !.results = results, !.pc = "resolved"]
    /\ UNCHANGED <<localStorage, location, login, register, dash, req, retry, batch, upl>>

\* the awaited request rejects, the error is swallowed and the loop goes on
SeqRequestRejectsGoesOn(error) ==
    /\ seq.pc = "awaiting"
    /\ seq' = IF seq.idx < seq.n
              THEN [seq EXCEPT !.idx = seq.idx + 1,
                               !.started = Append(seq.started, seq.idx + 1)]
              ELSE [seq EXCEPT !.pc = "resolved"]
    /\ UNCHANGED <<localStorage, location, login, register, dash, req, retry, batch, upl>>

\* the awaited request rejects: the error is rethrown
SeqRequestRejects(error) ==
    /\ seq.pc = "awaiting"
    /\ seq' = [seq EXCEPT !.pc = "rejected",
                          !.error = {[from |-> seq.idx, error |-> error]}]
    /\ UNCHANGED <<localStorage, location, login, register, dash, req, retry, batch, upl>>

----------------------------------------------------------------------------
(* util/request.ts: retryRequest() *)

MaxRetriesBound == 4
\* maxRetries is any number the caller passes, zero and negative ones included
RetryCounts == -1..MaxRetriesBound
BaseDelays == {1000, 300}

RECURSIVE Pow2(_)
Pow2(i) == IF i <= 0 THEN 1 ELSE 2 * Pow2(i - 1)

\* errors an attempt can reject with; `id` is the attempt that threw it
RetryErrors == {ApiError(MSG_NETWORK_ERROR, 0), ApiError("HTTP 400", 400),
                ApiError(MSG_TIMEOUT, 408), ApiError("HTTP 499", 499),
                ApiError(MSG_SERVER_ERROR, 500), ApiError(MSG_SERVER_ERROR, 503),
                Thrown("Error", -1, "boom"), Thrown("Error", 404, "not an ApiError")}

\* a 4xx test that lets timeouts be retried
IsClientErrorButTimeout(error) ==
    instanceofApiError(error) /\ error.status >= 400 /\ error.status < 500
        /\ error.status # 408

\* the 4xx test of the catch block
IsClientErrorAbove400(error) ==
    instanceofApiError(error) /\ error.status > 400 /\ error.status < 500

IsClientError(error) ==
    instanceofApiError(error) /\ error.status >= 400 /\ error.status < 500

BackoffDelayLinear(baseDelay, i) == baseDelay * (i + 1)

BackoffDelay(baseDelay, i) == baseDelay * Pow2(i)

IdleRetry == [pc |-> "idle", maxRetries |-> 0, baseDelay |-> 0, i |-> 0, calls |-> 0,
              delays |-> <<>>, lastError |-> {}, error |-> {}]

\* the loop test `i < maxRetries`, and the same with `<=`
LoopContinuesBeyond(i, maxRetries) == i <= maxRetries

LoopContinues(i, maxRetries) == i < maxRetries

\* the test `i < maxRetries - 1` that guards the backoff
WaitsBeforeRetry(i, maxRetries) == i < maxRetries - 1

\* i++ and the loop test: the next attempt, or `throw lastError` after the loop
NextIteration(r) ==
    IF LoopContinues(r.i + 1, r.maxRetries)
    THEN [r EXCEPT !.pc = "calling", !.i = r.i + 1, !.calls = r.calls + 1]
    ELSE [r EXCEPT !.pc = "rejected", !.i = r.i + 1, !.error = r.lastError]

\* retryRequest(requestFn, maxRetries, baseDelay) up to the first await
RetryCall(maxRetries, baseDelay) ==
    /\ retry.pc \in {"idle", "resolved", "rejected"}
    /\ retry' = IF LoopContinues(0, maxRetries)
                THEN [IdleRetry EXCEPT !.pc = "calling", !.maxRetries = maxRetries,
                                       !.baseDelay = baseDelay, !.calls = 1]
                ELSE [IdleRetry EXCEPT !.pc = "rejected", !.maxRetries = maxRetries,
                                       !.baseDelay = baseDelay]
    /\ UNCHANGED <<localStorage, location, login, register, dash, req, seq, batch, upl>>

\* the awaited attempt resolves: its value is returned
AttemptResolves ==
    /\ retry.pc = "calling"
    /\ retry' = [retry EXCEPT !.pc = "resolved"]
    /\ UNCHANGED <<localStorage, location, login, register, dash, req, seq, batch, upl>>

\* the catch block of the loop body, and what follows it
AttemptRejected(r, error) ==
    LET thrown == [id |-> r.calls, error |-> error]
        caught == [r EXCEPT !.lastError = {thrown}]
    IN  IF IsClientError(error)
        THEN [caught EXCEPT !.pc = "rejected", !.error = {thrown}]
        ELSE IF WaitsBeforeRetry(r.i, r.maxRetries)
        THEN [caught EXCEPT !.pc = "waiting",
                            !.delays = Append(r.delays, BackoffDelay(r.baseDelay, r.i))]
        ELSE NextIteration(caught)

\* the awaited attempt rejects
AttemptRejects(error) ==
    /\ retry.pc = "calling"
    /\ retry' = AttemptRejected(retry, error)
    /\ UNCHANGED <<localStorage, location, login, register, dash, req, seq, batch, upl>>

\* requestFn is () => request(...): the attempt is a call of request()
RequestFnCall(requiresAuth) ==
    /\ retry.pc = "calling" /\ req.pc = "idle"
    /\ RequestCall(requiresAuth)

\* that call of request() has settled: the await of the loop body returns
RequestFnSettles ==
    /\ retry.pc = "calling" /\ req.pc \in {"resolved", "rejected"}
    /\ retry' = IF req.pc = "resolved" THEN [retry EXCEPT !.pc = "resolved"]
                ELSE AttemptRejected(retry, req.result)
    /\ req' = IdleRequest
    /\ UNCHANGED <<localStorage, location, login, register, dash, seq, batch, upl>>

\* the backoff timer fires: the loop goes on
DelayElapses ==
    /\ retry.pc = "waiting"
    /\ retry' = NextIteration(retry)
    /\ UNCHANGED <<localStorage, location, login, register, dash, req, seq, batch, upl>>

----------------------------------------------------------------------------
(* util/request.ts: batchRequest() over calls of request() *)

\* what the server answers to the requests of a batch
BatchResponses ==
    {r \in Responses : /\ r.status \in {200, 401, 500}
                       /\ r.contentType = <<"application/json">>
                       /\ r.body = [valid |-> TRUE, kind |-> "object", message |-> ""]}

PendingSlot == [state |-> "pending", out |-> NoResult]

IdleBatch == [pc |-> "idle", n |-> 0, started |-> <<>>, slots |-> <<>>, settled |-> <<>>,
              results |-> <<>>, error |-> {}]

\* an array filled in the order in which the requests complete
BatchResultsAsSettled(slots, settled) ==
    [k \in 1..Len(slots) |-> [from |-> settled[k], status |-> slots[settled[k]].out.status]]

\* the array Promise.all resolves with: one entry per request, in input order
BatchResults(slots, settled) ==
    [k \in 1..Len(slots) |-> [from |-> k, status |-> slots[k].out.status]]

\* batchRequest(requests) with n functions: requests.map calls every one of
\* them, then Promise.all is awaited
BatchCall(n) ==
    /\ batch.pc \in {"idle", "resolved", "rejected"}
    /\ \A k \in 1..Len(batch.slots) : batch.slots[k].state # "pending"
    /\ batch' = [IdleBatch EXCEPT !.pc = IF n = 0 THEN "resolved" ELSE "running",
                                  !.n = n,
                                  !.started = [k \in 1..n |-> k],
                                  !.slots = [k \in 1..n |-> PendingSlot]]
    /\ UNCHANGED <<localStorage, location, login, register, dash, req, retry, seq, upl>>

\* the i-th request() of the batch gets its response and settles; Promise.all
\* rejects on the first rejection and resolves once every request has resolved
BatchRequestSettles(i, response) ==
    /\ i \in 1..Len(batch.slots)
    /\ batch.slots[i].state = "pending"
    /\ LET out == Settle(TryBody(response))
           slots == [batch.slots EXCEPT
                        ![i] = [state |-> IF out.kind = "return" THEN "resolved"
                                          ELSE "rejected",
                                out |-> out]]
           settled == Append(batch.settled, i)
       IN  batch' =
             IF batch.pc = "running" /\ out.kind = "throw"
             THEN [batch EXCEPT !.pc = "rejected", !.slots = slots, !.settled = settled,
                                !.error = {[from |-> i, error |-> out]}]
             ELSE IF batch.pc = "running" /\ \A k \in 1..batch.n : slots[k].state = "resolved"
             THEN [batch EXCEPT !.pc = "resolved", !.slots = slots, !.settled = settled,
                                !.results = BatchResults(slots, settled)]
             ELSE [batch EXCEPT !.slots = slots, !.settled = settled]
    /\ IF CallsRedirectToLogin(response)
       THEN /\ localStorage' = clearAuthData(localStorage)
            /\ location' = "/login"
            /\ dash' = [mounted |-> FALSE, user |-> {}]
       ELSE UNCHANGED <<localStorage, location, dash>>
    /\ UNCHANGED <<login, register, req, retry, seq, upl>>

----------------------------------------------------------------------------
(* util/request.ts: uploadFile() *)

\* custom headers a caller passes in options.headers (name -> value)
HeaderSets == {"Content-Type" :> <<"application/json">>,
               ("content-type" :> <<"text/", "plain">>) @@ ("X-Trace" :> <<"1">>)}

NoHeaders == << >>

\* options of uploadFile: hasHeaders tells whether the `headers` key is given;
\* method and body are "" when the key is not given
UploadOptions ==
    [requiresAuth : BOOLEAN, hasHeaders : {FALSE}, headers : {NoHeaders},
     method : {"", "PUT"}, body : {"", "raw"}]
    \cup [requiresAuth : BOOLEAN, hasHeaders : {TRUE}, headers : HeaderSets,
          method : {"", "PUT"}, body : {"", "raw"}]

\* what the server answers to an upload
UploadResponses ==
    {r \in Responses : /\ r.status \in {200, 401, 404, 500}
                       /\ r.contentType = <<"application/json">>}

\* String.prototype.toLowerCase on a header name
toLowerCase(name) ==
    CASE name = "Content-Type" -> "content-type"
      [] name = "X-Trace" -> "x-trace"
      [] OTHER -> name

\* requestHeaders, lines 361-388: the custom headers without Content-Type,
\* plus Authorization when requiresAuth and the token is truthy
UploadHeaders(options, ls) ==
    LET kept == {h \in DOMAIN options.headers : toLowerCase(h) # "content-type"}
        custom == [h \in kept |-> options.headers[h]]
    IN  IF options.requiresAuth /\ Truthy(ls, TOKEN)
        THEN [h \in kept \cup {"Authorization"} |->
                 IF h = "Authorization" THEN Bearer(ls) ELSE custom[h]]
        ELSE custom

\* the init object handed to fetch, lines 391-396: the keys of options are
\* spread after method, headers and body
UploadInit(options, ls) ==
    [method |-> IF options.method # "" THEN options.method ELSE "POST",
     headers |-> IF options.hasHeaders THEN options.headers ELSE UploadHeaders(options, ls),
     body |-> IF options.body # "" THEN options.body ELSE "FormData"]

\* the try block once fetchWithTimeout has returned the response
UploadTry(response) ==
    LET data == parseResponse(response) IN
    IF data.thrown # "" THEN Thrown(data.thrown, -1, data.errMessage)
    ELSE IF data.kind = "null" THEN NullAccess
    ELSE IF ~ResponseOk(response.status)
    THEN ApiError(IF data.message # "" THEN data.message ELSE "Upload failed",
                  response.status)
    ELSE Returned(response.status, data.message)

\* the catch block, lines 414-419
UploadCatch(error) ==
    IF instanceofApiError(error) THEN error
    ELSE ApiError(IF error.message # "" THEN error.message ELSE "Upload failed", 0)

UploadSettle(outcome) == IF outcome.kind = "throw" THEN UploadCatch(outcome) ELSE outcome

NoInit == [method |-> "", headers |-> NoHeaders, body |-> ""]

IdleUpload ==
    [pc |-> "idle",
     options |-> [requiresAuth |-> TRUE, hasHeaders |-> FALSE, headers |-> NoHeaders,
                  method |-> "", body |-> ""],
     sent |-> NoInit, timer |-> "none", aborted |-> FALSE, response |-> NoResponse,
     result |-> NoResult]

\* uploadFile() up to the await: the headers are built, fetchWithTimeout arms
\* its timer and calls fetch
UploadCall(options) ==
    /\ upl.pc \in {"idle", "resolved", "rejected"}
    /\ upl' = [IdleUpload EXCEPT !.pc = "fetching", !.options = options,
                                 !.sent = UploadInit(options, localStorage),
                                 !.timer = "armed"]
    /\ UNCHANGED <<localStorage, location, login, register, dash, req, retry, seq, batch>>

\* a fetchWithTimeout that forgets clearTimeout when fetch resolves
UploadFetchResolvesTimerKept(response) ==
    /\ upl.pc = "fetching" /\ ~upl.aborted
    /\ upl' = [upl EXCEPT !.pc = "parsing", !.response = response]
    /\ UNCHANGED <<localStorage, location, login, register, dash, req, retry, seq, batch>>

\* fetch resolves with a response: the timer is cleared
UploadFetchResolves(response) ==
    /\ upl.pc = "fetching" /\ ~upl.aborted
    /\ upl' = [upl EXCEPT !.pc = "parsing", !.timer = "cleared", !.response = response]
    /\ UNCHANGED <<localStorage, location, login, register, dash, req, retry, seq, batch>>

\* fetch rejects with a TypeError: the timer is cleared, the error is rethrown
UploadFetchFails(message) ==
    /\ upl.pc = "fetching" /\ ~upl.aborted
    /\ upl' = [upl EXCEPT !.pc = "rejected", !.timer = "cleared",
                          !.result = UploadCatch(Thrown("TypeError", -1, message))]
    /\ UNCHANGED <<localStorage, location, login, register, dash, req, retry, seq, batch>>

\* the timeout callback of this call runs: controller.abort()
UploadTimerFires ==
    /\ upl.pc = "fetching" /\ upl.timer = "armed"
    /\ upl' = [upl EXCEPT !.timer = "fired", !.aborted = TRUE]
    /\ UNCHANGED <<localStorage, location, login, register, dash, req, retry, seq, batch>>

\* the aborted fetch rejects with an AbortError, which becomes ApiError 408
UploadFetchAborted ==
    /\ upl.pc = "fetching" /\ upl.aborted
    /\ upl' = [upl EXCEPT !.pc = "rejected",
                          !.result = UploadCatch(ApiError(MSG_TIMEOUT, 408))]
    /\ UNCHANGED <<localStorage, location, login, register, dash, req, retry, seq, batch>>

\* the body has been read: the rest of the try block and the catch block
UploadParsed ==
    /\ upl.pc = "parsing"
    /\ LET result == UploadSettle(UploadTry(upl.response)) IN
       upl' = [upl EXCEPT !.pc = IF result.kind = "return" THEN "resolved" ELSE "rejected",
                          !.result = result]
    /\ UNCHANGED <<localStorage, location, login, register, dash, req, retry, seq, batch>>

----------------------------------------------------------------------------

Init ==
    /\ batch = IdleBatch
    /\ upl = IdleUpload
    /\ retry = IdleRetry
    /\ seq = IdleSeq
    /\ req = IdleRequest
    /\ localStorage = << >>
    /\ location = "/"
    /\ login = [pc |-> "idle", email |-> <<>>, password |-> <<>>,
                error |-> "", loading |-> FALSE, sessions |-> 0]
    /\ register = [pc |-> "idle", name |-> "", email |-> <<>>, password |-> <<>>,
                   error |-> "", loading |-> FALSE]
    /\ dash = [mounted |-> FALSE, user |-> {}]

Next ==
    \/ \E e \in Emails, p \in Passwords : LoginSubmit(e, p)
    \/ LoginComplete
    \/ \E n \in Names, e \in Emails, p \in Passwords : RegisterSubmit(n, e, p)
    \/ RegisterComplete
    \/ \E t \in Tokens, n \in Names, e \in Emails, r \in RefreshTokens :
          SaveAuthData(t, n, e, r)
    \/ ClearAuth
    \/ \E path \in Routes : GoTo(path)
    \/ DashboardMount
    \/ handleLogout

Spec == Init /\ [][Next]_vars

\* the fetch wrapper on its own, over a store written by the session helpers
NextRequest ==
    \/ \E t \in Tokens, n \in Names, e \in Emails, r \in RefreshTokens :
          SaveAuthData(t, n, e, r)
    \/ ClearAuth
    \/ \E requiresAuth \in BOOLEAN : RequestCall(requiresAuth)
    \/ \E response \in Responses : FetchResolves(response)
    \/ \E message \in NetworkFailures : FetchFails(message)
    \/ TimerFires
    \/ FetchAborted
    \/ ResponseParsed

SpecRequest == Init /\ [][NextRequest]_vars

NextSeq ==
    \/ \E n \in 0..MaxRequests : SeqCall(n)
    \/ \E value \in SeqValues : SeqRequestResolves(value)
    \/ \E error \in SeqErrors : SeqRequestRejects(error)

SpecSeq == Init /\ [][NextSeq]_vars

NextRetry ==
    \/ \E maxRetries \in RetryCounts, baseDelay \in BaseDelays :
          RetryCall(maxRetries, baseDelay)
    \/ AttemptResolves
    \/ \E error \in RetryErrors : AttemptRejects(error)
    \/ DelayElapses

SpecRetry == Init /\ [][NextRetry]_vars

\* responses for the attempts of a retried request()
RetryResponses ==
    {r \in Responses : /\ r.status \in {200, 404, 500}
                       /\ r.contentType = <<"application/json">>
                       /\ r.body = [valid |-> TRUE, kind |-> "object", message |-> ""]}

\* retryRequest(() => request(...)): every attempt is a call of request()
NextRetryRequest ==
    \/ \E maxRetries \in RetryCounts, baseDelay \in BaseDelays :
          req.pc = "idle" /\ RetryCall(maxRetries, baseDelay)
    \/ \E requiresAuth \in BOOLEAN : RequestFnCall(requiresAuth)
    \/ \E response \in RetryResponses : FetchResolves(response)
    \/ \E message \in NetworkFailures : FetchFails(message)
    \/ TimerFires
    \/ FetchAborted
    \/ ResponseParsed
    \/ RequestFnSettles
    \/ DelayElapses

SpecRetryRequest == Init /\ [][NextRetryRequest]_vars

\* a few responses for a request() that runs beside other activity
FewResponses ==
    {r \in Responses : /\ r.status \in {200, 401}
                       /\ r.contentType = <<"application/json">>
                       /\ r.body.kind \in {"object", "text"} /\ r.body.message = ""}

\* the pages, the session helpers and request() together, on few inputs
NextApp ==
    \/ \E p \in {DemoPassword, <<"a", "b", "c">>} : LoginSubmit(DemoEmail, p)
    \/ LoginComplete
    \/ \E e \in {<<"ann", "@", "x.org">>, <<"ann.x.org">>} :
          RegisterSubmit("Ann", e, DemoPassword)
    \/ RegisterComplete
    \/ \E t \in Tokens, r \in RefreshTokens :
          SaveAuthData(t, "Ann", <<"ann", "@", "x.org">>, r)
    \/ ClearAuth
    \/ \E path \in Routes : GoTo(path)
    \/ DashboardMount
    \/ handleLogout
    \/ \E requiresAuth \in BOOLEAN : RequestCall(requiresAuth)
    \/ \E response \in FewResponses : FetchResolves(response)
    \/ FetchFails("Failed to fetch")
    \/ TimerFires
    \/ FetchAborted
    \/ ResponseParsed

SpecApp == Init /\ [][NextApp]_vars

\* batchRequest over a store written by the session helpers
NextBatch ==
    \/ \E t \in Tokens, n \in Names, e \in Emails, r \in RefreshTokens :
          SaveAuthData(t, n, e, r)
    \/ \E n \in 0..MaxRequests : BatchCall(n)
    \/ \E i \in 1..MaxRequests, response \in BatchResponses :
          BatchRequestSettles(i, response)

SpecBatch == Init /\ [][NextBatch]_vars

\* uploadFile and request() side by side, each with its own timer
NextUpload ==
    \/ \E t \in Tokens, r \in RefreshTokens : SaveAuthData(t, "Ann", DemoEmail, r)
    \/ \E options \in UploadOptions : UploadCall(options)
    \/ \E response \in UploadResponses : UploadFetchResolves(response)
    \/ \E message \in NetworkFailures : UploadFetchFails(message)
    \/ UploadTimerFires
    \/ UploadFetchAborted
    \/ UploadParsed
    \/ \E requiresAuth \in BOOLEAN : RequestCall(requiresAuth)
    \/ \E response \in FewResponses : FetchResolves(response)
    \/ \E message \in NetworkFailures : FetchFails(message)
    \/ TimerFires
    \/ FetchAborted
    \/ ResponseParsed

SpecUpload == Init /\ [][NextUpload]_vars

----------------------------------------------------------------------------
(* Properties of request(), checked under SpecRequest *)

AuthKeysAbsent(ls) ==
    ~HasItem(ls, TOKEN) /\ ~HasItem(ls, USER) /\ ~HasItem(ls, REFRESH_TOKEN)

\* C1: whenever request() has received a response with status 401, then at
\* the moment its promise rejects company_token, company_user and
\* company_refresh_token are absent, the location is /login and the
\* rejection is an ApiError with status 401.
C1_Status401ForcesLogout ==
    [][(req.pc = "parsing" /\ req.response.status = 401 /\ req'.pc # "parsing") =>
          /\ req'.pc = "rejected"
          /\ AuthKeysAbsent(localStorage')
          /\ location' = "/login"
          /\ req'.result.name = "ApiError" /\ req'.result.status = 401]_vars

\* the data that the body of the received response parses to is an object
ParsesToObject(response) ==
    /\ response.body.valid /\ response.body.kind = "object"
    /\ response.contentType \in {<<"application/json">>, <<"application/octet-stream">>, <<>>}

\* the body of the received response cannot be read as its content type says
BodyUnreadable(response) ==
    /\ ~response.body.valid
    /\ response.contentType \in {<<"application/json">>, <<"application/octet-stream">>, <<>>}

ExpectedMessage(status, serverMessage) ==
    IF status = 401 THEN MSG_UNAUTHORIZED
    ELSE IF status = 403 THEN MSG_FORBIDDEN
    ELSE IF status = 404 THEN MSG_NOT_FOUND
    ELSE IF status >= 500 THEN MSG_SERVER_ERROR
    ELSE IF serverMessage # "" THEN serverMessage
    ELSE IF status = 422 THEN MSG_VALIDATION_ERROR
    ELSE "HTTP " \o ToString(status)

\* C6: for a response whose body parses to an object, request() resolves
\* (success true, status s) exactly when 200 <= s <= 299, and otherwise rejects
\* with an ApiError of status s carrying the fixed message for 401, 403, 404
\* and s >= 500, and the server's message when present for any other status.
C6_StatusDispatch ==
    (req.pc \in {"resolved", "rejected"} /\ req.response # NoResponse
        /\ ParsesToObject(req.response)) =>
        LET s == req.response.status IN
        /\ req.pc = "resolved" <=> (200 <= s /\ s <= 299)
        /\ req.pc = "resolved" => req.result.kind = "return" /\ req.result.status = s
        /\ req.pc = "rejected" =>
              /\ req.result.name = "ApiError" /\ req.result.status = s
              /\ req.result.message = ExpectedMessage(s, req.response.body.message)

C6_Witness ==
    /\ req.pc = "rejected" /\ ParsesToObject(req.response)
    /\ req.response.status = 409 /\ req.response.body.message = "server says no"
    /\ req.result.status = 409 /\ req.result.message = "server says no"

----------------------------------------------------------------------------
(* Properties of the session, checked under Spec *)

BothPresent(ls) == HasItem(ls, TOKEN) /\ HasItem(ls, USER)
BothAbsent(ls) == ~HasItem(ls, TOKEN) /\ ~HasItem(ls, USER)

LoginSucceeds == login.email = DemoEmail /\ login.password = DemoPassword

RegistrationFails ==
    (\A i \in 1..Len(register.email) : register.email[i] # "@")
        \/ Len(register.password) < 4

LoginReturns == login.pc = "pending" /\ login'.pc = "idle"
RegisterReturns == register.pc = "pending" /\ register'.pc = "idle"

\* C7: after a successful mock login or registration company_token and
\* company_user are present and the route is /dashboard; after Dashboard
\* logout both are absent and the route is /login, and a Dashboard mount in
\* a state without the token redirects to /login.
C7_SessionLifecycle ==
    [][/\ (LoginReturns /\ LoginSucceeds) =>
              BothPresent(localStorage') /\ location' = "/dashboard"
       /\ (RegisterReturns /\ ~RegistrationFails) =>
              BothPresent(localStorage') /\ location' = "/dashboard"
       /\ handleLogout =>
              BothAbsent(localStorage') /\ location' = "/login"
       /\ (DashboardMount /\ BothAbsent(localStorage)) =>
              location' = "/login" /\ ~dash'.mounted]_vars

C7_Witness ==
    /\ LoginSucceeds /\ login.pc = "idle" /\ ~login.loading /\ login.error = ""
    /\ BothAbsent(localStorage) /\ location = "/login" /\ ~dash.mounted
    /\ ~RegistrationFails /\ register.pc = "idle" /\ Len(register.email) > 0

\* C8: a mock login with credentials other than (user@company.com, password),
\* or a mock registration whose email lacks "@" or whose password is shorter
\* than 4 characters, leaves localStorage unchanged, does not navigate and
\* sets the page's error message.
C8_FailureLeavesSessionAlone ==
    [][/\ (LoginReturns /\ ~LoginSucceeds) =>
              /\ localStorage' = localStorage /\ location' = location
              /\ login'.error # "" /\ ~login'.loading
       /\ (RegisterReturns /\ RegistrationFails) =>
              /\ localStorage' = localStorage /\ location' = location
              /\ register'.error # "" /\ ~register'.loading]_vars

C8_Witness ==
    /\ login.pc = "idle" /\ login.error = "Invalid email or password"
    /\ register.pc = "idle" /\ register.error = "Invalid registration details"
    /\ HasItem(localStorage, TOKEN) /\ localStorage[TOKEN] = LoginToken
    /\ HasItem(localStorage, USER)

\* C9 as stated: whenever the key company_token is present, whatever its
\* value, isAuthenticated() is true and mounting Dashboard does not redirect;
\* when it is absent, isAuthenticated() is false and the mount redirects.
C9_TokenPresenceAuthenticates ==
    /\ HasItem(localStorage, TOKEN) =>
          isAuthenticated(localStorage) /\ ~DashboardRedirects(localStorage)
    /\ ~HasItem(localStorage, TOKEN) =>
          ~isAuthenticated(localStorage) /\ DashboardRedirects(localStorage)

\* the user counts as signed in: the token key holds a non-empty value
NonEmptyToken(ls) == HasItem(ls, TOKEN) /\ ls[TOKEN] # <<>>

\* C9 amended: whenever company_token is present with a non-empty value,
\* isAuthenticated() is true and mounting Dashboard does not redirect; when
\* the key is absent or holds the empty string, isAuthenticated() is false
\* and the mount redirects to /login.
C9_NonEmptyTokenAuthenticates ==
    /\ [](isAuthenticated(localStorage) <=> NonEmptyToken(localStorage))
    /\ [][DashboardMount =>
            IF NonEmptyToken(localStorage)
            THEN location' = "/dashboard" /\ dash'.mounted
            ELSE location' # "/dashboard" /\ ~dash'.mounted]_vars

C9_Witness ==
    /\ NonEmptyToken(localStorage) /\ location = "/dashboard" /\ dash.mounted
    /\ dash.user # {}

----------------------------------------------------------------------------
(* Properties of retryRequest, checked under SpecRetry *)

\* a retriable error: anything but an ApiError 4xx
Retriable(error) ==
    ~(error.name = "ApiError" /\ error.status \in 400..499)

\* C2: for maxRetries >= 1, requestFn is invoked at most maxRetries times; a
\* call that ends because every attempt rejected with a retriable error has
\* invoked it exactly maxRetries times and rejects with the error thrown by
\* the maxRetries-th attempt.
C2_RetryStopsAfterMaxRetries ==
    retry.maxRetries >= 1 =>
        /\ retry.calls <= retry.maxRetries
        /\ retry.pc \in {"calling", "waiting", "resolved"} => retry.i = retry.calls - 1
        /\ (retry.pc = "rejected" /\ \A t \in retry.error : Retriable(t.error)) =>
              /\ retry.calls = retry.maxRetries
              /\ \E t \in retry.error : t.id = retry.maxRetries
              /\ retry.error = retry.lastError

C2_Witness ==
    /\ retry.pc = "rejected" /\ retry.maxRetries = 3 /\ retry.calls = 3
    /\ \E t \in retry.error : t.id = 3 /\ t.error.status = 503

\* C3: an attempt that rejects with an ApiError 4xx ends retryRequest with
\* that very error: no backoff is waited after it and no attempt follows it,
\* however many attempts remain.
C3_ClientErrorNotRetried ==
    /\ \A t \in retry.lastError :
          ~Retriable(t.error) =>
              /\ retry.pc = "rejected"
              /\ retry.error = {t}
              /\ t.id = retry.calls
              /\ Len(retry.delays) = retry.calls - 1
    /\ retry.pc = "rejected" =>
          \A t \in retry.error : ~Retriable(t.error) \/ retry.calls = retry.maxRetries

C3_Witness ==
    /\ retry.pc = "rejected" /\ retry.maxRetries = 4 /\ retry.calls = 2
    /\ \E t \in retry.error : t.error.name = "ApiError" /\ t.error.status = 408

\* C4: a failure with status >= 500 or 0 is retried while attempts remain; the
\* k-th wait (between failed attempt k and attempt k+1) is baseDelay * 2^(k-1);
\* nothing is waited after the final failed attempt.
C4_ExponentialBackoff ==
    retry.maxRetries >= 1 =>
        /\ \A k \in 1..Len(retry.delays) : retry.delays[k] = retry.baseDelay * 2^(k - 1)
        /\ Len(retry.delays) <= retry.maxRetries - 1
        /\ retry.pc = "waiting" => Len(retry.delays) = retry.calls
        /\ retry.pc \in {"calling", "resolved", "rejected"} =>
              Len(retry.delays) = retry.calls - 1
        /\ \A t \in retry.lastError :
              (t.error.name = "ApiError" /\ (t.error.status >= 500 \/ t.error.status = 0)) =>
                  \/ retry.pc = "waiting" /\ t.id = retry.calls
                  \/ retry.pc \in {"calling", "resolved"} /\ t.id < retry.calls
                  \/ retry.pc = "rejected" /\ t.id = retry.maxRetries

C4_Witness ==
    /\ retry.pc = "rejected" /\ retry.maxRetries = 4 /\ retry.baseDelay = 1000
    /\ retry.delays = <<1000, 2000, 4000>>
    /\ \E t \in retry.error : t.error.status = 0

----------------------------------------------------------------------------
(* Properties of sequentialRequest, checked under SpecSeq *)

\* C10: the request functions are started one after another in array order,
\* request i+1 only once request i has resolved; the results are in input
\* order; when request i rejects, sequentialRequest rejects with that error
\* and no later request is ever started.
C10_SequentialOrder ==
    /\ \A k \in 1..Len(seq.started) : seq.started[k] = k
    /\ \A k \in 1..Len(seq.results) : seq.results[k].from = k
    /\ Len(seq.started) <= seq.n
    /\ seq.pc = "awaiting" => Len(seq.started) = Len(seq.results) + 1
    /\ seq.pc = "resolved" => Len(seq.results) = seq.n /\ Len(seq.started) = seq.n
    /\ seq.pc = "rejected" =>
          /\ Len(seq.started) = Len(seq.results) + 1
          /\ \E e \in seq.error : e.from = Len(seq.started) /\ seq.error = {e}

C10_Witness ==
    /\ seq.pc = "rejected" /\ seq.n = 3
    /\ seq.started = <<1, 2>> /\ Len(seq.results) = 1
    /\ \E e \in seq.error : e.from = 2

----------------------------------------------------------------------------
(* Properties of batchRequest, checked under SpecBatch *)

\* position in `settled` of the first request that rejected
FirstRejection(b) ==
    CHOOSE j \in 1..Len(b.settled) :
        /\ b.slots[b.settled[j]].state = "rejected"
        /\ \A h \in 1..(j - 1) : b.slots[b.settled[h]].state = "resolved"

\* C11: batchRequest starts every request before any settles; it resolves with
\* the results in input order whatever the order of completion, and rejects
\* with the first rejection that occurs; the other requests are not cancelled:
\* they stay pending, settle later, and a 401 among them still clears the
\* stored credentials and redirects.
C11_BatchIsParallel ==
    /\ [](batch.pc # "idle" =>
            /\ Len(batch.started) = batch.n /\ Len(batch.slots) = batch.n
            /\ \A k \in 1..batch.n : batch.started[k] = k)
    /\ [](batch.pc = "resolved" =>
            /\ Len(batch.results) = batch.n
            /\ \A k \in 1..batch.n :
                  /\ batch.slots[k].state = "resolved"
                  /\ batch.results[k] = [from |-> k, status |-> batch.slots[k].out.status])
    /\ [](batch.pc = "rejected" =>
            LET f == batch.settled[FirstRejection(batch)] IN
            batch.error = {[from |-> f, error |-> batch.slots[f].out]})
    /\ [][\A i \in 1..Len(batch.slots) :
            /\ (batch'.pc = "rejected" /\ batch.pc = "running"
                  /\ batch'.slots[i] # batch.slots[i]) =>
                  \A k \in 1..batch.n : k # i => batch'.slots[k] = batch.slots[k]
            /\ (batch.pc = "rejected" /\ batch'.pc = "rejected"
                  /\ batch.slots[i].state = "pending"
                  /\ batch'.slots[i].state = "rejected"
                  /\ batch'.slots[i].out.status = 401) =>
                  AuthKeysAbsent(localStorage') /\ location' = "/login"]_vars

C11_Witness ==
    /\ batch.pc = "rejected" /\ batch.n = 3 /\ batch.settled = <<2, 3, 1>>
    /\ batch.slots[2].out.status = 500 /\ batch.slots[3].out.status = 401
    /\ batch.slots[1].state = "resolved"
    /\ \E e \in batch.error : e.from = 2
    /\ AuthKeysAbsent(localStorage) /\ location = "/login"

----------------------------------------------------------------------------
(* Properties of fetchWithTimeout and uploadFile, checked under SpecUpload *)

\* one call of fetchWithTimeout, as seen in the record of its caller
TimeoutDiscipline(call) ==
    /\ call.timer = "armed" => call.pc = "fetching"
    /\ call.aborted <=> call.timer = "fired"
    /\ call.response # NoResponse => call.timer = "cleared" /\ ~call.aborted
    /\ call.pc \in {"parsing", "resolved"} => call.response # NoResponse
    /\ (call.pc = "rejected" /\ call.aborted) =>
          /\ call.result.name = "ApiError" /\ call.result.status = 408
          /\ call.response = NoResponse
    /\ (call.pc = "rejected" /\ call.timer = "cleared" /\ call.response = NoResponse) =>
          call.result.status = 0

\* C12: each call of fetchWithTimeout ends in exactly one of two ways. Either
\* fetch settles first: the timer is cleared, nothing is aborted and the
\* response or error of fetch is what the caller gets; or the timer fires
\* first: the fetch is aborted and the call rejects with ApiError 408. No
\* timer stays armed once the call has settled, and an abort touches no other
\* call.
C12_TimeoutIsPerRequest ==
    /\ [](TimeoutDiscipline(req) /\ TimeoutDiscipline(upl))
    /\ [][/\ (req'.aborted /\ ~req.aborted) => upl' = upl
          /\ (upl'.aborted /\ ~upl.aborted) => req' = req]_vars

C12_Witness ==
    /\ req.pc = "rejected" /\ req.aborted /\ req.result.status = 408
    /\ upl.pc = "parsing" /\ upl.timer = "cleared" /\ ~upl.aborted
    /\ upl.response.status = 200

\* C13: when uploadFile receives a response with status 401, the stored
\* credentials are cleared and the browser is sent to /login before the
\* ApiError is thrown.
C13_Upload401ForcesLogout ==
    [][(upl.pc = "parsing" /\ upl.response.status = 401 /\ upl'.pc # "parsing") =>
          /\ upl'.pc = "rejected" /\ upl'.result.name = "ApiError"
          /\ AuthKeysAbsent(localStorage')
          /\ location' = "/login"]_vars

\* C14: whatever options uploadFile is given, fetch receives a POST whose body
\* is the FormData, whose headers hold no Content-Type taken from the custom
\* headers, and whose headers hold Authorization: Bearer <token> whenever
\* requiresAuth is true and a token is stored.
C14_UploadRequestShape ==
    [][(upl'.pc = "fetching" /\ upl.pc # "fetching") =>
          /\ upl'.sent.method = "POST"
          /\ upl'.sent.body = "FormData"
          /\ \A h \in DOMAIN upl'.sent.headers :
                h \notin {"Content-Type", "content-type"}
          /\ (upl'.options.requiresAuth /\ Truthy(localStorage, TOKEN)) =>
                /\ "Authorization" \in DOMAIN upl'.sent.headers
                /\ upl'.sent.headers["Authorization"] = <<"Bearer ">> \o localStorage[TOKEN]]_vars

----------------------------------------------------------------------------
(* Further properties of request(), checked under SpecRequest *)

\* C15: request() called with requiresAuth true while no token is stored (the
\* key is absent or empty) rejects with ApiError 401 without calling fetch or
\* arming a timer, and changes neither localStorage nor the location.
C15_MissingTokenRejectsQuietly ==
    [][((\E requiresAuth \in BOOLEAN : RequestCall(requiresAuth))
          /\ req'.requiresAuth /\ ~Truthy(localStorage, TOKEN)) =>
          /\ req'.pc = "rejected"
          /\ req'.result.name = "ApiError" /\ req'.result.status = 401
          /\ req'.fetchCalls = 0 /\ req'.timer = "none"
          /\ localStorage' = localStorage /\ location' = location]_vars

C15_Witness ==
    /\ req.pc = "rejected" /\ req.requiresAuth /\ req.fetchCalls = 0
    /\ req.result.status = 401
    /\ ~Truthy(localStorage, TOKEN)
    /\ HasItem(localStorage, USER) /\ HasItem(localStorage, REFRESH_TOKEN)
    /\ location = "/"

----------------------------------------------------------------------------
(* Further properties of retryRequest, checked under SpecRetry *)

\* C19: for every maxRetries, zero and negative ones included, retryRequest
\* has invoked requestFn at least once when it settles, and a rejection
\* carries an error thrown by one of the invocations, never undefined.
C19_AtLeastOneAttempt ==
    retry.pc \in {"resolved", "rejected"} =>
        /\ retry.calls >= 1
        /\ retry.pc = "rejected" =>
              \E t \in retry.error : t.id \in 1..retry.calls

----------------------------------------------------------------------------
(* Properties of retryRequest over request(), checked under SpecRetryRequest *)

TimeoutError == [kind |-> "throw", name |-> "ApiError", status |-> 408,
                 message |-> MSG_TIMEOUT]

\* C16: an attempt of request() that times out (ApiError 408 from
\* fetchWithTimeout) is never followed by another attempt: retryRequest
\* rejects with the timeout error, after exactly one invocation when the
\* first attempt timed out, for every maxRetries >= 1; a network failure
\* (status 0) is retried while attempts remain.
C16_TimeoutNotRetried ==
    retry.maxRetries >= 1 =>
        \A t \in retry.lastError :
            /\ t.error = TimeoutError =>
                  /\ retry.pc = "rejected" /\ retry.error = {t}
                  /\ retry.calls = t.id
                  /\ Len(retry.delays) = t.id - 1
            /\ (t.error.status = 0 /\ t.id < retry.maxRetries) =>
                  /\ retry.pc \in {"waiting", "calling", "resolved"}
                  /\ retry.pc = "waiting" => retry.calls = t.id
                  /\ retry.pc \in {"calling", "resolved"} => retry.calls = t.id + 1

C16_Witness ==
    /\ retry.pc = "rejected" /\ retry.maxRetries = 3 /\ retry.calls = 1
    /\ retry.error = {[id |-> 1, error |-> TimeoutError]}
    /\ req.pc = "idle"

----------------------------------------------------------------------------
(* Properties of the session beside request(), checked under SpecApp *)

\* C17: between event handlers, whatever sequence of logins, registrations,
\* logouts, saveAuthData, clearAuth and 401 responses has run, company_token
\* is present exactly when company_user is present.
C17_TokenIffUser ==
    HasItem(localStorage, TOKEN) <=> HasItem(localStorage, USER)

C17_Witness ==
    /\ BothPresent(localStorage) /\ ~HasItem(localStorage, REFRESH_TOKEN)
    /\ localStorage[TOKEN] = RegisterToken
    /\ req.pc = "rejected" /\ req.response.status = 401 /\ req.result.status = 401
    /\ login.sessions = 1 /\ login.error = "Invalid email or password"
    /\ register.pc = "idle" /\ register.error = ""

\* the credentials a successful login writes
LoginCredentialsStored(ls) ==
    /\ HasItem(ls, TOKEN) /\ ls[TOKEN] = LoginToken
    /\ HasItem(ls, USER) /\ ls[USER] = Stringify("Demo User", DemoEmail)

====
